---- MODULE Spec2Model ----
(***************************************************************************)
(* A model of toolbox/watchmem.py: the tracker update of                   *)
(* WatchedProcess.read_mem, the poll loop of main with its three ways of   *)
(* stopping, and the rows and summary it writes.                           *)
(*                                                                         *)
(* One step of the model is one statement (or one call into psutil) of     *)
(* the program, so that a KeyboardInterrupt can be delivered between any   *)
(* two of them, as CPython delivers it.  The operating system is modelled  *)
(* by the set of live processes: a query on a process that is not live     *)
(* raises NoSuchProcess, and a process that has gone stays gone.           *)
(*                                                                         *)
(* Time is counted in half seconds and starts at 0 when main records       *)
(* `start`; it advances only in time.sleep (sampling takes no time).       *)
(* Memory is counted in bytes (rss) and in kilobytes (the tracker); the    *)
(* readings are whole kilobytes, so rss / 1000 is exact.                   *)
(***************************************************************************)
EXTENDS Integers, Sequences, FiniteSets, TLC

\* ------------------------------------------------------------------ bounds

\* The longest pid argument list tried.
MaxLen == 3
\* The poll loop is cut off after this many passes when no duration stops it.
MaxTicks == 4
\* The number of KeyboardInterrupts delivered in one run.
MaxInterrupts == 1

\* ------------------------------------------------------------- the inputs

\* The process identifiers the user may name.
PidSet == {3, 5}
\* The descendants a tracked process may have: 31 and 32 are children of 3.
KidSet == {31, 32}
\* The resident set sizes, in bytes, a tracked process may report.
RssVals == {1000 * 1000, 1500 * 1000}
\* --interval and --duration, in half seconds.  Inf stands for math.inf, the
\* default duration: a time no run of the model reaches.
Inf == 999999
Intervals == {2, 3}
Durations == {1, 2, 3, 4, 5, Inf}

RECURSIVE SeqsUpTo(_, _)
\* All sequences over S of length at most n.
SeqsUpTo(S, n) ==
    IF n = 0 THEN {<<>>}
    ELSE LET shorter == SeqsUpTo(S, n - 1)
         IN  shorter \cup {Append(s, x) : s \in shorter, x \in S}

\* Every argument list of at most MaxLen identifiers.
PidArgs == SeqsUpTo(PidSet, MaxLen)

\* ------------------------------------------------------------------ state

VARIABLES
    pid,                \* main's argument: the tuple of identifiers
    include_children,   \* main's argument
    interval,           \* main's argument
    duration,           \* main's argument
    alive,              \* the OS: the tracked processes that still exist
    kidAlive,           \* the OS: the descendants that currently exist
    states,             \* main's list of WatchedProcess, as their pids
    mem,                \* the WatchedResource every WatchedProcess.mem names
    pc,                 \* the statement main is at
    i,                  \* the position of `for state in states`
    j,                  \* the position of summarize's `for state in states`
    tick,               \* the number of passes of the while loop begun
    now,                \* time.time() - start
    loc,                \* read_mem's locals: mem_raw, kids, mem, delta
    reading,            \* sample's local: what read_mem returned
    tickRows,           \* the pids of the rows written in the current pass
    lastRow,            \* the row written last
    groups,             \* the summary groups written so far
    nsummaries,         \* the number of summarize calls that returned
    breaking,           \* whether "Breaking" was printed
    cause,              \* why the loop was left
    intr,               \* the number of KeyboardInterrupts delivered
    fed,                \* history: the readings fed to the tracker
    sample_h,           \* history: the OS answers of the sample in progress
    gone,               \* history: the process memory_info found gone, and when
    log_std,            \* is_stream_std(log_file)
    denied,             \* the OS: the processes whose queries are refused
    header,             \* the header lines written
    csvRows,            \* the pids of the csv rows written in the current pass
    own                 \* history: each process's own first and last reading

vars == <<pid, include_children, interval, duration, alive, kidAlive, states,
          mem, pc, i, j, tick, now, loc, reading, tickRows, lastRow,
          groups, nsummaries, breaking, cause, intr, fed, sample_h, gone,
          log_std, denied, header, csvRows, own>>

\* The values a Python name may hold here: None, False, or a number.
None == [tag |-> "None"]
False == [tag |-> "False"]
Num(x) == [tag |-> "num", val |-> x]
\* What a call gives when it raises instead of returning.
Raised(exc) == [tag |-> "raise", exc |-> exc]

\* ------------------------------------------------------- the pure helpers

\* set(value)
set(value) == {value[k] : k \in 1..Len(value)}

RECURSIVE sorted_Descending(_)
\* A sort with the order reversed.
sorted_Descending(S) ==
    IF S = {} THEN <<>>
    ELSE LET most == CHOOSE x \in S : \A y \in S : x >= y
         IN  <<most>> \o sorted_Descending(S \ {most})

RECURSIVE sorted(_)
\* sorted(S) of a set of integers: ascending.
sorted(S) ==
    IF S = {} THEN <<>>
    ELSE LET least == CHOOSE x \in S : \A y \in S : x <= y
         IN  <<least>> \o sorted(S \ {least})

\* validate_pids, for a non-empty value (the empty one raises BadParameter).
validate_pids(value) == sorted(set(value))

\* A validate_pids that lets the empty argument through.
BadParameter_Never(value) == FALSE

\* validate_pids' `if not value: raise click.BadParameter(...)`.
BadParameter(value) == value = <<>>

\* The header lines main writes: the styled one, to the log file when that
\* is a standard stream and to stderr otherwise, and then the csv one too.
Header(std) == IF std THEN {"styled"} ELSE {"styled", "csv"}

\* WatchedResource(): the dataclass defaults.
WatchedResource == [first |-> TRUE, total |-> 0, last |-> 0, delta |-> 0]

\* The children of a process, live or not.
Kids(p) == IF p = 3 THEN KidSet ELSE {}
\* The resident set size of a descendant, in bytes.
KidRss(c) == IF c = 31 THEN 200 * 1000 ELSE 300 * 1000

\* psutil raises NoSuchProcess for a query on a process that is gone.
NoSuchProcess(p) == p \notin alive

\* psutil raises AccessDenied for a query the OS refuses; it is no subclass
\* of NoSuchProcess.
AccessDenied(p) == p \in denied

\* A status() that answers for a process that is gone.
StatusRaises_Never(p) == FALSE

\* writerow's num_children and status() raise it for the process of the row.
StatusRaises(p) == NoSuchProcess(p)

\* A get_proc_mem that still reports the memory of a descendant that is gone.
get_proc_mem_Stale(c) == Num(KidRss(c))

\* get_proc_mem: the rss of a descendant, or None when it is gone; any other
\* exception of memory_info passes through.
get_proc_mem(c) ==
    IF c \notin kidAlive THEN None
    ELSE IF AccessDenied(c) THEN Raised("AccessDenied")
    ELSE Num(KidRss(c))

\* A delta that forgets the first-sample flag.
NewDelta_IgnoresFirst(first, m, last) == m - last

\* read_mem's `delta = 0 if self.mem.first else mem - self.mem.last`.
NewDelta(first, m, last) == IF first THEN 0 ELSE m - last

\* sample's test of what read_mem returned.
ReadingIsNone(r) == r = None

\* A test that stops one interval early.
DurationReached_OneEarly(elapsed, d) == elapsed + interval >= d

\* A test that misses the boundary.
DurationReached_Strict(elapsed, d) == elapsed > d

\* main's `elapsed >= duration`.
DurationReached(elapsed, d) == elapsed >= d

\* time.sleep(interval): the clock after the sleep.
AfterSleep(t, dt) == t + dt

RECURSIVE SumRss(_)
SumRss(S) ==
    IF S = {} THEN 0
    ELSE LET c == CHOOSE x \in S : TRUE IN KidRss(c) + SumRss(S \ {c})

NoLocals == [mem_raw |-> 0, kids |-> <<>>, mem |-> 0, delta |-> 0]
NoSample == [rss |-> 0, ok |-> {}, missed |-> {}]
NoOwn == [first |-> 0, last |-> 0]
NoFed == [n |-> 0, first |-> 0, prev |-> 0, last |-> 0, done |-> 0, sum |-> 0]

\* ------------------------------------------------------------------- Init

\* The state when main is called: the arguments are drawn from the given
\* sets; any of the named processes may already be gone; stds are the
\* answers of is_stream_std(log_file) and denials the sets of processes the
\* OS may refuse to answer for.
InitCore(args, incs, ivals, durs, stds, denials) ==
    /\ pid \in args
    /\ include_children \in incs
    /\ interval \in ivals
    /\ duration \in durs
    /\ alive \in SUBSET set(pid)
    /\ kidAlive = KidSet
    /\ states = <<>>
    /\ mem = WatchedResource
    /\ pc = "start"
    /\ i = 0
    /\ j = 0
    /\ tick = 0
    /\ now = 0
    /\ loc = NoLocals
    /\ reading = None
    /\ tickRows = <<>>
    /\ lastRow = None
    /\ groups = <<>>
    /\ nsummaries = 0
    /\ breaking = FALSE
    /\ cause = "none"
    /\ intr = 0
    /\ fed = NoFed
    /\ sample_h = NoSample
    /\ gone = None
    /\ log_std \in stds
    /\ denied \in denials
    /\ header = {}
    /\ csvRows = <<>>
    /\ own = [p \in PidSet |-> NoOwn]

\* The same, writing to standard output (the default --log-file) with no
\* query refused.
InitWith(args, incs, ivals, durs) ==
    InitCore(args, incs, ivals, durs, {TRUE}, {{}})

\* Two tracked processes at most, with and without their children, for two
\* or three passes one second apart.
Init == InitWith({<<>>, <<3>>, <<5, 3>>}, BOOLEAN, {2}, {2, 4})

\* One or two tracked processes, with and without their children, where the
\* OS may refuse to answer for one process.
InitDenied ==
    InitCore({<<3>>, <<5, 3>>}, BOOLEAN, {2}, {2}, {TRUE},
             {{}, {3}, {5}, {31}})

\* One or two tracked processes, logging to a standard stream or to a file.
InitLog == InitCore({<<3>>, <<5, 3>>}, {FALSE}, {2}, {2}, BOOLEAN, {{}})

\* One or two tracked processes on every interval and duration.
InitTime == InitWith({<<3>>, <<5, 3>>}, {FALSE}, Intervals, Durations)

\* Every argument list.
InitPids == InitWith(PidArgs, {FALSE}, {2}, {2})

\* ---------------------------------------------------------------- startup

\* The statements of the try block, where main's except clause is in force.
TryPcs == {"loop", "sample", "children", "child", "compute", "set_first",
           "set_delta", "set_total", "set_last", "writerow", "writecsv",
           "check", "sleep", "summarize_try"}
\* main has ended.
EndPcs == {"usage", "crashed", "unhandled", "returned", "done", "aborted"}

\* validate_pids and main up to `start = time.time()`: an empty argument is
\* a usage error, raised before main is entered; main writes the header;
\* WatchedProcess.create raises NoSuchProcess, outside the try block, for
\* an identifier that names no process.
Startup ==
    /\ pc = "start"
    /\ IF BadParameter(pid)
       THEN /\ pc' = "usage"
            /\ UNCHANGED <<states, header>>
       ELSE LET processes == sorted(set(validate_pids(pid)))
            IN  /\ header' = Header(log_std)
                /\ IF \E k \in 1..Len(processes) : NoSuchProcess(processes[k])
                   THEN /\ pc' = "crashed"
                        /\ UNCHANGED states
                   ELSE /\ pc' = "loop"
                        /\ states' = processes
    /\ UNCHANGED <<pid, include_children, interval, duration, alive, kidAlive,
                   mem, i, j, tick, now, loc, reading, tickRows, lastRow, groups,
                   nsummaries, breaking, cause, intr, fed, sample_h, gone,
                   log_std, denied, csvRows, own>>

\* -------------------------------------------------------- the environment

\* The statements that query the OS about the process being sampled.
QueryPcs == {"sample", "children", "writerow", "writecsv"}
\* The statements that query the OS about descendants.
KidQueryPcs == {"children", "child", "writerow"}

\* A tracked process exits.  (It is observed only by the queries, so it is
\* enough to let it exit right before one.)
Vanish ==
    /\ pc \in QueryPcs
    /\ states[i] \in alive
    /\ alive' = alive \ {states[i]}
    /\ UNCHANGED <<pid, include_children, interval, duration, kidAlive,
                   states, mem, pc, i, j, tick, now, loc, reading, tickRows, lastRow,
                   groups, nsummaries, breaking, cause, intr, fed, sample_h, gone,
                   log_std, denied, header, csvRows, own>>

\* A descendant exits.
KidExit ==
    /\ pc \in KidQueryPcs
    /\ include_children
    /\ \E c \in Kids(states[i]) \cap kidAlive : kidAlive' = kidAlive \ {c}
    /\ UNCHANGED <<pid, include_children, interval, duration, alive, states,
                   mem, pc, i, j, tick, now, loc, reading, tickRows, lastRow, groups,
                   nsummaries, breaking, cause, intr, fed, sample_h, gone,
                   log_std, denied, header, csvRows, own>>

\* A descendant is started.
KidSpawn ==
    /\ pc \in KidQueryPcs
    /\ include_children
    /\ states[i] \in alive
    /\ \E c \in Kids(states[i]) \ kidAlive : kidAlive' = kidAlive \cup {c}
    /\ UNCHANGED <<pid, include_children, interval, duration, alive, states,
                   mem, pc, i, j, tick, now, loc, reading, tickRows, lastRow, groups,
                   nsummaries, breaking, cause, intr, fed, sample_h, gone,
                   log_std, denied, header, csvRows, own>>

\* ------------------------------------------------------------ the poll loop

\* `while True: end = False; for state in states:` a pass begins.
LoopTop ==
    /\ pc = "loop"
    /\ tick' = tick + 1
    /\ i' = 1
    /\ tickRows' = <<>>
    /\ csvRows' = <<>>
    /\ pc' = IF states = <<>> THEN "check" ELSE "sample"
    /\ UNCHANGED lastRow
    /\ UNCHANGED <<pid, include_children, interval, duration, alive, kidAlive,
                   states, mem, j, now, loc, reading, groups, nsummaries,
                   breaking, cause, intr, fed, sample_h, gone,
                   log_std, denied, header, own>>

\* sample's call of read_mem, up to `mem_raw = info.rss`: memory_info raises
\* NoSuchProcess for a process that is gone and read_mem returns False; an
\* AccessDenied is caught neither by read_mem nor by main.
MemoryInfo ==
    /\ pc = "sample"
    /\ IF NoSuchProcess(states[i])
       THEN /\ reading' = False
            /\ pc' = "writerow"
            /\ gone' = [pid |-> states[i], tick |-> tick]
            /\ UNCHANGED <<loc, sample_h>>
       ELSE IF AccessDenied(states[i])
       THEN /\ pc' = "unhandled"
            /\ UNCHANGED <<reading, loc, sample_h, gone>>
       ELSE \E rss \in RssVals :
            /\ loc' = [NoLocals EXCEPT !.mem_raw = rss]
            /\ sample_h' = [NoSample EXCEPT !.rss = rss]
            /\ reading' = None
            /\ pc' = IF include_children THEN "children" ELSE "compute"
            /\ UNCHANGED gone
    /\ UNCHANGED <<pid, include_children, interval, duration, alive, kidAlive,
                   states, mem, i, j, tick, now, tickRows, lastRow, groups,
                   nsummaries, breaking, cause, intr, fed,
                   log_std, denied, header, csvRows, own>>

\* read_mem's `self.process.children(True)`: the live descendants, or
\* NoSuchProcess, which read_mem does not catch, when the process is gone.
Children ==
    /\ pc = "children"
    /\ IF NoSuchProcess(states[i])
       THEN /\ pc' = "except"
            /\ cause' = "vanish"
            /\ loc' = NoLocals
       ELSE /\ loc' = [loc EXCEPT !.kids = sorted(Kids(states[i]) \cap kidAlive)]
            /\ pc' = "child"
            /\ UNCHANGED cause
    /\ UNCHANGED <<pid, include_children, interval, duration, alive, kidAlive,
                   states, mem, i, j, tick, now, reading, tickRows, lastRow, groups,
                   nsummaries, breaking, intr, fed, sample_h, gone,
                   log_std, denied, header, csvRows, own>>

\* One turn of `for child in ...: mem = get_proc_mem(child); if mem is not
\* None: mem_raw += mem.rss`, or the end of the loop.
ChildMem ==
    /\ pc = "child"
    /\ IF loc.kids = <<>>
       THEN /\ pc' = "compute"
            /\ UNCHANGED <<loc, sample_h>>
       ELSE LET child == Head(loc.kids)
                m == get_proc_mem(child)
            IN  IF m.tag = "raise"
                THEN /\ pc' = "unhandled"
                     /\ loc' = NoLocals
                     /\ UNCHANGED sample_h
                ELSE /\ loc' = [loc EXCEPT
                                !.kids = Tail(loc.kids),
                                !.mem_raw = IF m # None THEN @ + m.val ELSE @]
                     /\ sample_h' =
                            IF child \in kidAlive
                            THEN [sample_h EXCEPT !.ok = @ \cup {child}]
                            ELSE [sample_h EXCEPT !.missed = @ \cup {child}]
                     /\ UNCHANGED pc
    /\ UNCHANGED <<pid, include_children, interval, duration, alive, kidAlive,
                   states, mem, i, j, tick, now, reading, tickRows, lastRow, groups,
                   nsummaries, breaking, cause, intr, fed, gone,
                   log_std, denied, header, csvRows, own>>

\* `mem = mem_raw / 1000` and `delta = 0 if self.mem.first else mem -
\* self.mem.last`.
Compute ==
    /\ pc = "compute"
    /\ LET m == loc.mem_raw \div 1000
       IN  /\ loc' = [loc EXCEPT !.mem = m,
                                 !.delta = NewDelta(mem.first, m, mem.last)]
           /\ fed' = [fed EXCEPT !.n = @ + 1,
                                 !.first = IF fed.n = 0 THEN m ELSE @,
                                 !.prev = fed.last,
                                 !.last = m]
    /\ pc' = "set_first"
    /\ UNCHANGED <<pid, include_children, interval, duration, alive, kidAlive,
                   states, mem, i, j, tick, now, reading, tickRows, lastRow, groups,
                   nsummaries, breaking, cause, intr, sample_h, gone,
                   log_std, denied, header, csvRows, own>>

\* `if self.mem.first: self.mem.first = False`
SetFirst ==
    /\ pc = "set_first"
    /\ mem' = [mem EXCEPT !.first = FALSE]
    /\ pc' = "set_delta"
    /\ UNCHANGED <<pid, include_children, interval, duration, alive, kidAlive,
                   states, i, j, tick, now, loc, reading, tickRows, lastRow, groups,
                   nsummaries, breaking, cause, intr, fed, sample_h, gone,
                   log_std, denied, header, csvRows, own>>

\* `self.mem.delta = delta`
SetDelta ==
    /\ pc = "set_delta"
    /\ mem' = [mem EXCEPT !.delta = loc.delta]
    /\ fed' = [fed EXCEPT !.sum = @ + loc.delta]
    /\ pc' = "set_total"
    /\ UNCHANGED <<pid, include_children, interval, duration, alive, kidAlive,
                   states, i, j, tick, now, loc, reading, tickRows, lastRow, groups,
                   nsummaries, breaking, cause, intr, sample_h, gone,
                   log_std, denied, header, csvRows, own>>

\* `self.mem.total += delta`
SetTotal ==
    /\ pc = "set_total"
    /\ mem' = [mem EXCEPT !.total = @ + loc.delta]
    /\ pc' = "set_last"
    /\ UNCHANGED <<pid, include_children, interval, duration, alive, kidAlive,
                   states, i, j, tick, now, loc, reading, tickRows, lastRow, groups,
                   nsummaries, breaking, cause, intr, fed, sample_h, gone,
                   log_std, denied, header, csvRows, own>>

\* `self.mem.last = mem; return mem`
SetLast ==
    /\ pc = "set_last"
    /\ mem' = [mem EXCEPT !.last = loc.mem]
    /\ reading' = Num(loc.mem)
    /\ fed' = [fed EXCEPT !.done = @ + 1]
    /\ own' = [own EXCEPT ![states[i]] =
                  [first |-> IF @.first = 0 THEN loc.mem ELSE @.first,
                   last |-> loc.mem]]
    /\ loc' = NoLocals
    /\ pc' = "writerow"
    /\ UNCHANGED <<pid, include_children, interval, duration, alive, kidAlive,
                   states, i, j, tick, now, tickRows, lastRow, groups, nsummaries,
                   breaking, cause, intr, sample_h, gone,
                   log_std, denied, header, csvRows>>

\* The row writerow builds from the tracker and the OS.
Row(p) ==
    [pid |-> p, tick |-> tick, mem |-> mem.last, delta |-> mem.delta,
     total |-> mem.total,
     num_children |-> IF include_children
                      THEN Cardinality(Kids(p) \cap kidAlive) ELSE 0]

\* The rest of sample and the end of the for loop's turn.  `if reading is
\* None: return False` leaves the loop by `end = True; break`, and main goes
\* on to its last two lines.  Otherwise writerow: num_children and status()
\* raise NoSuchProcess for a process that is gone, before anything is
\* written; else the row is written and sample returns True.
WriteRow ==
    /\ pc = "writerow"
    /\ IF ReadingIsNone(reading)
       THEN /\ pc' = "summarize"
            /\ j' = 1
            /\ cause' = "vanish"
            /\ UNCHANGED <<i, tickRows, lastRow>>
       ELSE IF StatusRaises(states[i])
       THEN /\ pc' = "except"
            /\ cause' = "vanish"
            /\ UNCHANGED <<i, j, tickRows, lastRow>>
       ELSE /\ tickRows' = Append(tickRows, states[i])
            /\ lastRow' = Row(states[i]) @@
                              [read |-> reading,
                               included |-> Cardinality(sample_h.ok)]
            /\ IF ~log_std
               THEN /\ pc' = "writecsv"
                    /\ UNCHANGED i
               ELSE IF i < Len(states)
               THEN /\ i' = i + 1
                    /\ pc' = "sample"
               ELSE /\ i' = 0
                    /\ pc' = "check"
            /\ UNCHANGED <<j, cause>>
    /\ reading' = None
    /\ sample_h' = NoSample
    /\ UNCHANGED <<pid, include_children, interval, duration, alive, kidAlive,
                   states, mem, tick, now, loc, groups, nsummaries, breaking,
                   intr, fed, gone,
                   log_std, denied, header, csvRows, own>>

\* writerow's `write_csv_row(writer, [str(state.pid),
\* str(state.process.status()), ...])`, after the styled row has gone to
\* stderr: the second status() raises NoSuchProcess for a process that is
\* gone by now.  Then sample returns True and the for loop goes on.
WriteCsv ==
    /\ pc = "writecsv"
    /\ IF StatusRaises(states[i])
       THEN /\ pc' = "except"
            /\ cause' = "vanish"
            /\ UNCHANGED <<i, csvRows>>
       ELSE /\ csvRows' = Append(csvRows, states[i])
            /\ IF i < Len(states)
               THEN /\ i' = i + 1
                    /\ pc' = "sample"
               ELSE /\ i' = 0
                    /\ pc' = "check"
            /\ UNCHANGED cause
    /\ UNCHANGED <<pid, include_children, interval, duration, alive, kidAlive,
                   states, mem, j, tick, now, loc, reading, tickRows, lastRow,
                   groups, nsummaries, breaking, intr, fed, sample_h, gone,
                   log_std, denied, header, own>>

\* `elapsed = time.time() - start; if elapsed >= duration:` summarize and
\* return, else sleep.
Check ==
    /\ pc = "check"
    /\ IF DurationReached(now, duration)
       THEN /\ pc' = "summarize_try"
            /\ j' = 1
            /\ cause' = "duration"
       ELSE /\ pc' = "sleep"
            /\ UNCHANGED <<j, cause>>
    /\ UNCHANGED <<pid, include_children, interval, duration, alive, kidAlive,
                   states, mem, i, tick, now, loc, reading, tickRows, lastRow, groups,
                   nsummaries, breaking, intr, fed, sample_h, gone,
                   log_std, denied, header, csvRows, own>>

\* `time.sleep(interval)`
Sleep ==
    /\ pc = "sleep"
    /\ tick < MaxTicks
    /\ now' = AfterSleep(now, interval)
    /\ pc' = "loop"
    /\ UNCHANGED <<pid, include_children, interval, duration, alive, kidAlive,
                   states, mem, i, j, tick, loc, reading, tickRows, lastRow, groups,
                   nsummaries, breaking, cause, intr, fed, sample_h, gone,
                   log_std, denied, header, csvRows, own>>

\* ------------------------------------------------------------- the summary

\* The group summarize writes for the j-th WatchedProcess.
Group(k) ==
    [pid |-> states[k], elapsed |-> now, last |-> mem.last,
     total |-> mem.total]

\* A summarize that zeroes the growth it has reported.
Summarized_Reset(m) == [m EXCEPT !.total = 0]

\* The tracker after summarize has written its group: summarize reads
\* state.mem.last and state.mem.total and assigns to no field.
Summarized(m) == m

\* One turn of summarize's loop, or its return; `after` is where main is
\* when summarize has returned.
SummarizeStep(after) ==
    /\ IF j <= Len(states)
       THEN /\ groups' = Append(groups, Group(j))
            /\ mem' = Summarized(mem)
            /\ j' = j + 1
            /\ UNCHANGED <<pc, nsummaries>>
       ELSE /\ nsummaries' = nsummaries + 1
            /\ pc' = after
            /\ UNCHANGED <<groups, j, mem>>
    /\ UNCHANGED <<pid, include_children, interval, duration, alive, kidAlive,
                   states, i, tick, now, loc, reading, tickRows, lastRow,
                   breaking, cause, intr, fed, sample_h, gone,
                   log_std, denied, header, csvRows, own>>

\* `summarize(end - start, states); return` inside the try block.
SummarizeTry ==
    /\ pc = "summarize_try"
    /\ SummarizeStep("returned")

\* main's last two lines.
Summarize ==
    /\ pc = "summarize"
    /\ SummarizeStep("done")

\* `except (KeyboardInterrupt, ps.NoSuchProcess, click.Abort):` prints the
\* notice and falls through to main's last two lines.
Except ==
    /\ pc = "except"
    /\ breaking' = TRUE
    /\ pc' = "summarize"
    /\ j' = 1
    /\ UNCHANGED <<pid, include_children, interval, duration, alive, kidAlive,
                   states, mem, i, tick, now, loc, reading, tickRows, lastRow, groups,
                   nsummaries, cause, intr, fed, sample_h, gone,
                   log_std, denied, header, csvRows, own>>

\* A KeyboardInterrupt is raised between two statements: inside the try
\* block the except clause takes it, in the handler and after it nothing
\* does.
Interrupt ==
    /\ intr < MaxInterrupts
    /\ pc \in TryPcs \cup {"except", "summarize"}
    /\ intr' = intr + 1
    /\ pc' = IF pc \in TryPcs THEN "except" ELSE "aborted"
    /\ cause' = IF pc \in TryPcs /\ cause = "none" THEN "interrupt" ELSE cause
    /\ loc' = NoLocals
    /\ reading' = None
    /\ UNCHANGED <<pid, include_children, interval, duration, alive, kidAlive,
                   states, mem, i, j, tick, now, tickRows, lastRow, groups, nsummaries,
                   breaking, fed, sample_h, gone,
                   log_std, denied, header, csvRows, own>>

\* The steps of a run with --no-include-children.
NextNoChildren ==
    \/ Startup
    \/ Vanish
    \/ LoopTop
    \/ MemoryInfo
    \/ Compute
    \/ SetFirst
    \/ SetDelta
    \/ SetTotal
    \/ SetLast
    \/ WriteRow
    \/ Check
    \/ Sleep
    \/ SummarizeTry
    \/ Summarize
    \/ Except
    \/ Interrupt

Next ==
    \/ NextNoChildren
    \/ KidExit
    \/ KidSpawn
    \/ Children
    \/ ChildMem

Spec == Init /\ [][Next]_vars
SpecTime == InitTime /\ [][NextNoChildren]_vars
SpecPids == InitPids /\ [][NextNoChildren]_vars
SpecDenied == InitDenied /\ [][Next]_vars

\* The steps of a run without children whose log file may be a file.
NextLog ==
    \/ NextNoChildren
    \/ WriteCsv

SpecLog == InitLog /\ [][NextLog]_vars

\* ------------------------------------------------------------- the claims

\* The tracker is between two updates: every reading fed to it is recorded.
Settled == fed.n > 0 /\ fed.done = fed.n

\* C1: after the first update of a fresh tracker delta = 0, total = 0 and
\* first is false; after update k > 0, delta = v_k - v_(k-1) and total =
\* v_k - v_0, which is also the sum of the deltas recorded so far.
C1_TrackerArithmetic ==
    Settled =>
        /\ ~mem.first
        /\ mem.last = fed.last
        /\ mem.delta = (IF fed.n = 1 THEN 0 ELSE fed.last - fed.prev)
        /\ mem.total = fed.last - fed.first
        /\ mem.total = fed.sum

\* C1: one process, three readings 1500, 1000, 1000: the total is negative
\* and differs from the last delta.
C1_Witness ==
    /\ states = <<3>>
    /\ Settled
    /\ fed.n = 3
    /\ mem.total = -500
    /\ mem.delta = 0

\* C2: each tracked process has its own tracker, so the first row of every
\* process, the rows of the first pass, shows delta 0 and total 0.
C2_OwnTracker ==
    (lastRow # None /\ lastRow.tick = 1) =>
        (lastRow.delta = 0 /\ lastRow.total = 0)

\* C3: once memory_info has found process P gone in pass k, no row of pass k
\* is for P or for a process after P, no later pass begins, and main is on
\* its way to the summary.
C3_StopOnVanish ==
    (gone # None) =>
        /\ tick = gone.tick
        /\ \A k \in 1..Len(tickRows) : tickRows[k] < gone.pid
        /\ pc \in {"writerow", "except", "summarize", "done", "aborted"}

\* C3: process 3 of 3 and 5 is found gone in the second pass and the summary
\* has been written.
C3_Witness ==
    /\ gone # None
    /\ gone.pid = 3
    /\ gone.tick = 2
    /\ states = <<3, 5>>
    /\ pc = "done"
    /\ Len(groups) = 2

\* The duration stopped the run, and it is no multiple of the interval.
StoppedBetweenTicks == cause = "duration" /\ duration % interval # 0

\* C4, as stated: the loop makes exactly floor(D / I) passes.
C4_FloorTicks ==
    StoppedBetweenTicks => tick = duration \div interval

\* C4, amended: the loop makes exactly floor(D / I) + 2 passes, at the times
\* 0, I, ..., (floor(D / I) + 1) * I.
C4_TicksByDuration ==
    StoppedBetweenTicks =>
        /\ tick = duration \div interval + 2
        /\ now = (tick - 1) * interval

\* C4: D = 2.5 s and I = 1 s stop in the fourth pass (tick 3 counted from 0).
C4_Witness ==
    /\ cause = "duration"
    /\ duration = 5
    /\ interval = 2
    /\ tick = 4
    /\ pc = "returned"

\* C5: when a (positive) duration stops the run, the elapsed time is at
\* least D and exceeds D by less than one interval.
C5_Overshoot ==
    (cause = "duration") =>
        (now >= duration /\ now - duration < interval)

\* C5: D = 2 s and I = 1.5 s stop at 3 s.
C5_Witness ==
    /\ cause = "duration"
    /\ duration = 4
    /\ interval = 3
    /\ now = 6
    /\ pc = "returned"

\* C6: when the summary is computed after an interrupt, the tracker of a
\* sampled process is whole: total = last - first reading and total is the
\* sum of the deltas recorded.  (Stated for a run that tracks one process,
\* whose readings are then all the tracker was fed.)
C6_AtomicUpdate ==
    (pc = "summarize" /\ cause = "interrupt" /\ Len(states) = 1
        /\ fed.done > 0) =>
        /\ mem.total = mem.last - fed.first
        /\ mem.total = fed.sum

\* C7: a run that began ticking and has ended wrote the summary exactly
\* once: one summarize call returned and one group per process was written.
C7_SummaryOnce ==
    (pc \in {"returned", "done", "aborted"}) =>
        (nsummaries = 1 /\ Len(groups) = Len(states))

\* C8: when the summary has been written, "Breaking" was printed if and only
\* if an interrupt stopped the run.
C8_BreakingIffInterrupt ==
    (pc \in {"returned", "done"}) => (breaking <=> cause = "interrupt")

\* C9: the tracked collection is the distinct identifiers of the argument in
\* ascending order, and the rows of a pass follow it: strictly ascending,
\* one row per identifier at most.
C9_SortedDistinct ==
    (pc \notin {"start", "usage", "crashed"}) =>
        /\ set(states) = set(pid)
        /\ \A a, b \in 1..Len(states) : a < b => states[a] < states[b]
        /\ Len(tickRows) <= Len(states)
        /\ \A k \in 1..Len(tickRows) : tickRows[k] = states[k]

\* C9: [5, 3, 5] is tracked as 3 then 5 and a pass wrote both rows.
C9_Witness ==
    /\ pid = <<5, 3, 5>>
    /\ states = <<3, 5>>
    /\ tickRows = <<3, 5>>

\* A sample whose read_mem returned a number is about to write its row.
SampleRead == pc = "writerow" /\ reading.tag = "num"

\* C10: with include-children, a child that is gone when its memory is read
\* does not end the sample: main stays in read_mem and sample unless it is
\* interrupted, and the value recorded is the parent's reading plus the
\* readings of exactly the children whose read succeeded.
C10_ChildVanish ==
    /\ (sample_h.missed # {} /\ intr = 0) =>
           pc \in {"child", "compute", "set_first", "set_delta", "set_total",
                   "set_last", "writerow"}
    /\ (pc \in {"child", "compute"}) =>
           loc.mem_raw = sample_h.rss + SumRss(sample_h.ok)
    /\ (include_children /\ SampleRead) =>
           /\ mem.last * 1000 = sample_h.rss + SumRss(sample_h.ok)
           /\ reading.val = mem.last

\* C10: the child using 200 kB was counted in the first pass (parent 1000 kB
\* + 200 kB) and is gone when it is read in the second: parent only.
C10_Witness ==
    /\ lastRow # None
    /\ lastRow.tick = 1
    /\ lastRow.mem = 1200
    /\ tick = 2
    /\ SampleRead
    /\ sample_h.rss = 1000 * 1000
    /\ sample_h.missed = {31}
    /\ sample_h.ok = {}
    /\ mem.last = 1000

\* C11: a query the OS refuses (AccessDenied) is handled like not-found: it
\* never leaves main as an unhandled exception.
C11_DeniedHandled == pc # "unhandled"

\* C12: a not-found condition on a tracked process never leaves main as an
\* unhandled exception, at whatever step it arises, startup included.
C12_NotFoundHandled == pc # "crashed"

\* C13: the header and the rows agree on the output mode.  Logging to a
\* file, the csv header is written and the csv rows of a pass are the styled
\* rows of that pass, one for one and in the same order (the csv row of the
\* sample in hand follows its styled row); logging to a standard stream,
\* there is the styled header only and no csv row.
C13_RowsAgree ==
    (pc \notin {"start", "usage"} /\ intr = 0) =>
        IF log_std
        THEN header = {"styled"} /\ csvRows = <<>>
        ELSE /\ header = {"styled", "csv"}
             /\ IF pc = "writecsv"
                THEN tickRows = Append(csvRows, states[i])
                ELSE tickRows = csvRows

\* C14: with no process identifier the run never begins: main ends in the
\* usage error with no header, no WatchedProcess, no pass, no row and no
\* summary.
C14_UsageError ==
    (pid = <<>>) =>
        /\ pc \in {"start", "usage"}
        /\ header = {}
        /\ states = <<>>
        /\ tick = 0
        /\ lastRow = None
        /\ groups = <<>>
        /\ nsummaries = 0

\* C14: the empty argument has been refused.
C14_Witness == pid = <<>> /\ pc = "usage"

\* C15: the summary of an uninterrupted run has one group per tracked
\* process, in the order of the collection, each with the elapsed time, the
\* last reading of that process and the growth of that process since its
\* first reading.
C15_OwnGroups ==
    (pc \in {"returned", "done"} /\ intr = 0) =>
        /\ Len(groups) = Len(states)
        /\ \A k \in 1..Len(groups) :
              /\ groups[k].pid = states[k]
              /\ groups[k].elapsed = now
              /\ groups[k].last = own[states[k]].last
              /\ groups[k].total =
                    own[states[k]].last - own[states[k]].first

\* C16: summarize is idempotent: writing a group changes neither the tracker
\* nor the collection, and two groups written for the same process, by one
\* summarize call or by two, are the same.
C16_SummarizeIdempotent ==
    /\ [](\A a, b \in 1..Len(groups) :
             groups[a].pid = groups[b].pid => groups[a] = groups[b])
    /\ [][Len(groups') > Len(groups) => (mem' = mem /\ states' = states)]_vars

\* C16: two processes with a growth were summarized twice over.
C16_Witness ==
    /\ pc = "done"
    /\ Len(states) = 2
    /\ Len(groups) = 4
    /\ mem.total # 0

\* C17: with --include-children, the child count of a row is the number of
\* children whose memory went into the row's value.
C17_CountMatchesSum ==
    (lastRow # None /\ include_children) =>
        lastRow.num_children = lastRow.included

\* C18: a row is written only after a read that succeeded and shows the
\* value that read returned, and when read_mem reports the process gone
\* sample returns False: no exception reaches main's except clause.
C18_RowFromRead ==
    /\ (lastRow # None) => lastRow.read = Num(lastRow.mem)
    /\ (gone # None /\ intr = 0) => (pc # "except" /\ ~breaking)

====
